---- MODULE Spec2Model ----
(***************************************************************************)
(* Model of src/app.py: the LINE webhook assistant that classifies a text  *)
(* message with a language model and records a transaction in, or reports  *)
(* from, a per-user Firestore collection (process_text_input).             *)
(*                                                                         *)
(* Every inbound text message is one run of process_text_input in a        *)
(* request thread.  The runs of different threads interleave at the        *)
(* blocking calls (model, store, transport), as they do under the threaded *)
(* Flask server.  When the run is over the webhook request ends and the    *)
(* thread is free for the next message.                                    *)
(***************************************************************************)
EXTENDS Integers, Sequences, FiniteSets, TLC

(***************************************************************************)
(* Bounds of the model: the number of messages received in a run and the   *)
(* last tick of the clock.                                                 *)
(***************************************************************************)
MaxMsgs == 3
MaxClock == 2

(* The request threads of the server and the users that send messages.     *)
Threads == 1..2
Users == {"U1", "U2"}

(* The local clock (datetime.datetime.now()) is a tick counter.  The       *)
(* calendar is given by the ticks that are local midnights and those that  *)
(* are midnights of day 1 of a month: tick 1 starts a day of the month of  *)
(* tick 0, tick 2 starts a month, tick 3 is later in the day of tick 2.    *)
DayStarts == {0, 1, 2, 4, 5}
MonthStarts == {0, 2, 5}

(***************************************************************************)
(* JSON values, as json.loads produces them.  Missing stands for a key     *)
(* that is absent from an object.                                          *)
(***************************************************************************)
Int_(n) == [t |-> "int", n |-> n, s |-> ""]
Str(s) == [t |-> "str", n |-> 0, s |-> s]
Null == [t |-> "null", n |-> 0, s |-> ""]
Missing == [t |-> "missing", n |-> 0, s |-> ""]

Obj(intent, item, price, category, period) ==
    [kind |-> "obj", intent |-> intent, item |-> item, price |-> price,
     category |-> category, period |-> period, date |-> Missing]
NonObj(k) ==
    [kind |-> k, intent |-> Missing, item |-> Missing, price |-> Missing,
     category |-> Missing, period |-> Missing, date |-> Missing]

(* An object of the model that also carries a "date" key.                  *)
Dated(d, v) == [d EXCEPT !.date = v]

RecordObj(i, p, c) == Obj(Str("record"), i, p, c, Missing)
QueryObj(p) == Obj(Str("query"), Missing, Missing, Missing, p)

(* A response text of the model: a body that is JSON text of `data`, or    *)
(* text that is no JSON document ("garbage", "truncated"), possibly        *)
(* wrapped in a markdown ```json fence.                                    *)
Text(fence, body, data) == [fence |-> fence, body |-> body, data |-> data]
Json(data) == Text(FALSE, "json", data)
Fenced(data) == Text(TRUE, "json", data)

RecordTexts ==
    { Fenced(RecordObj(Str("Coffee"), Int_(50), Str("Food"))),
      Json(Dated(RecordObj(Str("Tea"), Int_(10), Str("food")), Int_(9))),
      Json(RecordObj(Str("Coffee"), Str("50"), Str("Food"))),
      Json(RecordObj(Str(""), Int_(0 - 5), Str(""))),
      Json(RecordObj(Str("Coffee"), Missing, Str("Food"))) }

QueryTexts ==
    { Fenced(QueryObj(Str("today"))),
      Json(QueryObj(Str("this_month"))),
      Json(QueryObj(Str("all"))),
      Json(QueryObj(Str("last_month"))),
      Json(QueryObj(Missing)) }

UnknownTexts ==
    { Json(Obj(Str("unknown"), Missing, Missing, Missing, Missing)),
      Json(Obj(Missing, Str("Coffee"), Int_(50), Str("Food"), Missing)) }

BrokenTexts ==
    { Text(FALSE, "garbage", NonObj("null")),
      Text(TRUE, "truncated", NonObj("null")),
      Json(NonObj("list")),
      Json(NonObj("null")) }

ModelTexts == RecordTexts \cup QueryTexts \cup UnknownTexts \cup BrokenTexts

(* The runs explored: one request thread and one user with every response  *)
(* text; one request thread and two users, and two interleaved request     *)
(* threads and one user, with the response texts below.                    *)
TwoUserTexts ==
    { Fenced(RecordObj(Str("Coffee"), Int_(50), Str("Food"))),
      Json(Dated(RecordObj(Str("Tea"), Int_(10), Str("food")), Int_(9))),
      Json(QueryObj(Str("all"))) }

ConcurrentTexts ==
    { Fenced(RecordObj(Str("Coffee"), Int_(50), Str("Food"))),
      Json(QueryObj(Str("all"))) }

Scenarios ==
    { [threads |-> 1, users |-> {"U1"}, texts |-> "all"],
      [threads |-> 1, users |-> Users, texts |-> "two users"],
      [threads |-> 2, users |-> {"U1"}, texts |-> "concurrent"] }

TextsOf(name) ==
    CASE name = "all" -> ModelTexts
      [] name = "two users" -> TwoUserTexts
      [] name = "concurrent" -> ConcurrentTexts

NoData == NonObj("none")
NoResponse == Text(FALSE, "none", NoData)

VARIABLES
    clock,      \* datetime.datetime.now(), in ticks
    store,      \* users/{user_id}/transactions: the documents, in insertion order
    pc,         \* position of each thread's run of process_text_input
    user,       \* user_id of the message each thread handles
    response,   \* the local `response`: the text the model returned
    data,       \* the local `data` of each run
    stamp,      \* data['date'] (record) or `now` (query) of each run
    reply_msg,  \* the reply text the run has built
    calls,      \* the outbound calls each run has made, in order
    outbox,     \* the replies the transport accepted for each reply_token
    result,     \* how the run ended: "none", "returned", "raised"
    received,   \* number of messages the webhook has received
    scenario,   \* the request threads in use and the texts the model returns
    fetched     \* the local `docs`: the documents the store returned, in order

vars ==
    <<clock, store, pc, user, response, data, stamp, reply_msg, calls, outbox,
      result, received, scenario, fetched>>


(***************************************************************************)
(* Pure helpers.                                                           *)
(***************************************************************************)
Digit == <<"0", "1", "2", "3", "4", "5", "6", "7", "8", "9">>

RECURSIVE NatToStr(_)
NatToStr(n) ==
    IF n < 10 THEN Digit[n + 1] ELSE NatToStr(n \div 10) \o Digit[(n % 10) + 1]

IntToStr(i) == IF i < 0 THEN "-" \o NatToStr(0 - i) ELSE NatToStr(i)

(* What an f-string prints for a JSON value.                               *)
StrOf(v) ==
    CASE v.t = "int" -> IntToStr(v.n)
      [] v.t = "str" -> v.s
      [] OTHER -> "None"

(* response.text.replace('```json', '').replace('```', '').strip()         *)
Clean(raw) == [raw EXCEPT !.fence = FALSE]

(* json.loads: the decoded value, or JSONDecodeError for text that is not  *)
(* one JSON document (a fence left in place is not JSON either).           *)
JsonLoads(text) ==
    IF text.fence \/ text.body # "json"
    THEN [ok |-> FALSE, data |-> NoData]
    ELSE [ok |-> TRUE, data |-> text.data]

(* Lines 64-69: clean, decode, and fall back to {"intent": "unknown"}.     *)
Decode(raw) ==
    LET r == JsonLoads(Clean(raw))
    IN  IF r.ok THEN r.data
        ELSE Obj(Str("unknown"), Missing, Missing, Missing, Missing)

(* GetIntent with "record" taken for an object that has no intent key.     *)
GetIntentOrRecord(d) == IF d.intent = Missing THEN Str("record") ELSE d.intent

(* data.get('intent'): only a dict has .get (AttributeError otherwise).    *)
HasGet(d) == d.kind = "obj"
GetIntent(d) == IF d.intent = Missing THEN Null ELSE d.intent

MaxOf(S) == CHOOSE x \in S : \A y \in S : y <= x

(* datetime.datetime(now.year, now.month, now.day)                         *)
DayStart(now) == MaxOf({d \in DayStarts : d <= now})
(* datetime.datetime(now.year, now.month, 1)                               *)
MonthStart(now) == MaxOf({d \in MonthStarts : d <= now})

(* Lines 94-102: the lower bound of the query window and its label.        *)
StartDate(period, now) ==
    CASE period = Str("this_month") ->
            [has |-> TRUE, at |-> MonthStart(now), label |-> "This Month"]
      [] period = Str("today") ->
            [has |-> TRUE, at |-> DayStart(now), label |-> "Today"]
      [] OTHER -> [has |-> FALSE, at |-> 0, label |-> "Total"]

(* Where with `>` for `>=`.                                                *)
WhereAfter(coll, start) ==
    IF start.has THEN SelectSeq(coll, LAMBDA d : d.date > start.at) ELSE coll

(* Lines 105-106: query_ref.where('date', '>=', start_date)                *)
Where(coll, start) ==
    IF start.has THEN SelectSeq(coll, LAMBDA d : d.date >= start.at) ELSE coll

(* AddDoc with a document id derived from the content: a document with the *)
(* same item, price and category is written over.                          *)
AddDocByContent(coll, doc) ==
    IF \E i \in 1..Len(coll) :
          /\ coll[i].item = doc.item
          /\ coll[i].price = doc.price
          /\ coll[i].category = doc.category
    THEN [i \in 1..Len(coll) |->
             IF /\ coll[i].item = doc.item
                /\ coll[i].price = doc.price
                /\ coll[i].category = doc.category
             THEN doc ELSE coll[i]]
    ELSE Append(coll, doc)

(* Firestore add: a new document with an auto id in the collection.        *)
AddDoc(coll, doc) == Append(coll, doc)

(* NewDoc with the "date" of the model output kept when it has one.        *)
NewDocKeepsDate(d, date) ==
    [item |-> d.item, price |-> d.price, category |-> d.category,
     date |-> IF d.date = Missing THEN date ELSE d.date.n]

(* Lines 76-81: the document written for a record intent.                  *)
NewDoc(d, date) ==
    [item |-> d.item, price |-> d.price, category |-> d.category, date |-> date]

(* query_ref.stream(): the matching documents in an order the store picks. *)
Injections(n) ==
    {p \in [1..n -> 1..n] : \A i, j \in 1..n : p[i] = p[j] => i = j}
FetchOrders(docs) ==
    {[i \in 1..Len(docs) |-> docs[p[i]]] : p \in Injections(Len(docs))}

(* AddToCategory with `=` for `+=`: the subtotal is overwritten.            *)
AddToCategoryOverwrite(cats, c, price) ==
    IF \E i \in 1..Len(cats) : cats[i].cat = c
    THEN [i \in 1..Len(cats) |->
             IF cats[i].cat = c THEN [cat |-> c, amount |-> price] ELSE cats[i]]
    ELSE Append(cats, [cat |-> c, amount |-> price])

(* Lines 110-119: the accumulation loop.  `+` on a price that is no number *)
(* raises TypeError, which ends the loop.                                  *)
CatIndex(cats, c) ==
    IF \E i \in 1..Len(cats) : cats[i].cat = c
    THEN CHOOSE i \in 1..Len(cats) : cats[i].cat = c
    ELSE 0

(* AddToCategory with a new category put in front of the others.           *)
AddToCategoryFront(cats, c, price) ==
    LET i == CatIndex(cats, c)
    IN  IF i = 0 THEN <<[cat |-> c, amount |-> price]>> \o cats
        ELSE [cats EXCEPT ![i].amount = @ + price]

AddToCategory(cats, c, price) ==
    LET i == CatIndex(cats, c)
    IN  IF i = 0 THEN Append(cats, [cat |-> c, amount |-> price])
        ELSE [cats EXCEPT ![i].amount = @ + price]

IsNumber(v) == v.t = "int"

(* Lines 116-117: t.get('price', 0), t.get('category', 'Uncategorized').   *)
GetPrice(t) == IF t.price = Missing THEN Int_(0) ELSE t.price
GetCategory(t) == IF t.category = Missing THEN Str("Uncategorized") ELSE t.category

RECURSIVE Accumulate(_, _)
Accumulate(docs, acc) ==
    IF docs = <<>> \/ ~acc.ok THEN acc
    ELSE LET t == Head(docs)
             price == GetPrice(t)
             category == GetCategory(t)
         IN  IF ~IsNumber(price)
             THEN [acc EXCEPT !.ok = FALSE]
             ELSE Accumulate(Tail(docs),
                     [ok |-> TRUE,
                      total |-> acc.total + price.n,
                      cats |-> AddToCategory(acc.cats, category, price.n)])

Aggregate(docs) == Accumulate(docs, [ok |-> TRUE, total |-> 0, cats |-> <<>>])

(***************************************************************************)
(* Reply texts (lines 83, 122-126, 136, 143; the leading emoji omitted).   *)
(***************************************************************************)
UnknownText ==
    "I didn't understand that. You can say 'Coffee $50' to record, or 'Check spending' to see report."
ErrorText == "Sorry, an error occurred while processing your request."

ConfirmationText(d) ==
    "Recorded: " \o StrOf(d.item) \o " - $" \o StrOf(d.price)
        \o " (" \o StrOf(d.category) \o ")"

RECURSIVE CategoryLines(_)
CategoryLines(cats) ==
    IF cats = <<>> THEN ""
    ELSE "* " \o StrOf(Head(cats).cat) \o ": $" \o IntToStr(Head(cats).amount)
            \o "\n" \o CategoryLines(Tail(cats))

ReportText(label, total, cats) ==
    "Spending Report (" \o label \o ")\n" \o "Total: $" \o IntToStr(total)
        \o "\n" \o "----------------\n" \o CategoryLines(cats)

Reply(kind, text, label, total, cats) ==
    [kind |-> kind, text |-> text, label |-> label, total |-> total, cats |-> cats]
NoReply == Reply("none", "", "", 0, <<>>)
UnknownReply == Reply("unknown", UnknownText, "", 0, <<>>)
ErrorReply == Reply("error", ErrorText, "", 0, <<>>)
ConfirmationReply(d) == Reply("confirmation", ConfirmationText(d), "", 0, <<>>)
ReportReply(label, agg) ==
    Reply("report", ReportText(label, agg.total, agg.cats), label, agg.total, agg.cats)

Call(op, ok) == [op |-> op, ok |-> ok]

(***************************************************************************)
(* Initial state: no message has arrived, every collection is empty.       *)
(***************************************************************************)
Init ==
    /\ clock = 0
    /\ store = [u \in Users |-> <<>>]
    /\ pc = [m \in Threads |-> "idle"]
    /\ user = [m \in Threads |-> "U1"]
    /\ response = [m \in Threads |-> NoResponse]
    /\ data = [m \in Threads |-> NoData]
    /\ stamp = [m \in Threads |-> 0]
    /\ reply_msg = [m \in Threads |-> NoReply]
    /\ calls = [m \in Threads |-> <<>>]
    /\ outbox = [m \in Threads |-> <<>>]
    /\ result = [m \in Threads |-> "none"]
    /\ received = 0
    /\ scenario \in Scenarios
    /\ fetched = [m \in Threads |-> <<>>]

(* The wall clock advances.                                                *)
Tick ==
    /\ clock < MaxClock
    /\ clock' = clock + 1
    /\ UNCHANGED <<store, pc, user, response, data, stamp, reply_msg,
                   calls, outbox, result, received, scenario, fetched>>

(* handle_message (lines 163-165): a text message of user u arrives.       *)
HandleMessage(m, u) ==
    /\ received < MaxMsgs
    /\ m <= scenario.threads
    /\ u \in scenario.users
    /\ pc[m] = "idle"
    /\ \A k \in Threads : k < m => pc[k] # "idle"
    /\ received' = received + 1
    /\ pc' = [pc EXCEPT ![m] = "generate"]
    /\ user' = [user EXCEPT ![m] = u]
    /\ UNCHANGED <<clock, store, response, data, stamp, reply_msg, calls, outbox,
                   result, scenario, fetched>>

(* Lines 63-69: the model call returns `raw`, which is cleaned and decoded.*)
Generate(m, raw) ==
    /\ pc[m] = "generate"
    /\ raw \in TextsOf(scenario.texts)
    /\ calls' = [calls EXCEPT ![m] = Append(@, Call("llm", TRUE))]
    /\ response' = [response EXCEPT ![m] = raw]
    /\ data' = [data EXCEPT ![m] = Decode(raw)]
    /\ pc' = [pc EXCEPT ![m] = "dispatch"]
    /\ UNCHANGED <<clock, store, user, stamp, reply_msg, outbox, result,
                   received, scenario, fetched>>

(* Line 63: the model call raises.                                         *)
GenerateFails(m) ==
    /\ pc[m] = "generate"
    /\ calls' = [calls EXCEPT ![m] = Append(@, Call("llm", FALSE))]
    /\ pc' = [pc EXCEPT ![m] = "except"]
    /\ UNCHANGED <<clock, store, user, response, data, stamp, reply_msg,
                   outbox, result, received, scenario, fetched>>

(* Lines 71-73, 89-102, 133: the branch on data.get('intent').  The record *)
(* branch stamps data['date'], the query branch reads `now` and            *)
(* data['period'] (KeyError when absent).                                  *)
Dispatch(m) ==
    /\ pc[m] = "dispatch"
    /\ IF ~HasGet(data[m])
       THEN /\ pc' = [pc EXCEPT ![m] = "except"]
            /\ UNCHANGED <<stamp, reply_msg>>
       ELSE CASE GetIntent(data[m]) = Str("record") ->
                    /\ stamp' = [stamp EXCEPT ![m] = clock]
                    /\ pc' = [pc EXCEPT ![m] = "add"]
                    /\ UNCHANGED reply_msg
              [] GetIntent(data[m]) = Str("query") ->
                    /\ stamp' = [stamp EXCEPT ![m] = clock]
                    /\ pc' = [pc EXCEPT ![m] =
                                IF data[m].period = Missing THEN "except" ELSE "stream"]
                    /\ UNCHANGED reply_msg
              [] OTHER ->
                    /\ reply_msg' = [reply_msg EXCEPT ![m] = UnknownReply]
                    /\ pc' = [pc EXCEPT ![m] = "reply"]
                    /\ UNCHANGED stamp
    /\ UNCHANGED <<clock, store, user, response, data, calls, outbox,
                   result, received, scenario, fetched>>

(* Add with the confirmation built and sent whether or not the store has  *)
(* acknowledged the write.                                                 *)
AddUnchecked(m, acked) ==
    /\ pc[m] = "add"
    /\ IF Missing \in {data[m].item, data[m].price, data[m].category}
       THEN /\ pc' = [pc EXCEPT ![m] = "except"]
            /\ UNCHANGED <<store, calls, reply_msg>>
       ELSE /\ calls' = [calls EXCEPT ![m] = Append(@, Call("write", acked))]
            /\ store' = IF acked
                        THEN [store EXCEPT ![user[m]] =
                                 Append(@, NewDoc(data[m], stamp[m]))]
                        ELSE store
            /\ reply_msg' = [reply_msg EXCEPT ![m] = ConfirmationReply(data[m])]
            /\ pc' = [pc EXCEPT ![m] = "reply"]
    /\ UNCHANGED <<clock, user, response, data, stamp, outbox, result,
                   received, scenario, fetched>>

(* Add with the document written to one collection shared by all users     *)
(* (the path without the user's document).                                 *)
AddToSharedCollection(m, acked) ==
    /\ pc[m] = "add"
    /\ IF Missing \in {data[m].item, data[m].price, data[m].category}
       THEN /\ pc' = [pc EXCEPT ![m] = "except"]
            /\ UNCHANGED <<store, calls, reply_msg>>
       ELSE /\ calls' = [calls EXCEPT ![m] = Append(@, Call("write", acked))]
            /\ IF acked
               THEN /\ store' = [store EXCEPT !["U1"] =
                                    AddDoc(@, NewDoc(data[m], stamp[m]))]
                    /\ reply_msg' = [reply_msg EXCEPT ![m] = ConfirmationReply(data[m])]
                    /\ pc' = [pc EXCEPT ![m] = "reply"]
               ELSE /\ pc' = [pc EXCEPT ![m] = "except"]
                    /\ UNCHANGED <<store, reply_msg>>
    /\ UNCHANGED <<clock, user, response, data, stamp, outbox, result,
                   received, scenario, fetched>>

(* Lines 76-83: data['item'], data['price'], data['category'] are read     *)
(* (KeyError when absent, before any call), then the document is added.    *)
Add(m, acked) ==
    /\ pc[m] = "add"
    /\ IF Missing \in {data[m].item, data[m].price, data[m].category}
       THEN /\ pc' = [pc EXCEPT ![m] = "except"]
            /\ UNCHANGED <<store, calls, reply_msg>>
       ELSE /\ calls' = [calls EXCEPT ![m] = Append(@, Call("write", acked))]
            /\ IF acked
               THEN /\ store' = [store EXCEPT ![user[m]] =
                                    AddDoc(@, NewDoc(data[m], stamp[m]))]
                    /\ reply_msg' = [reply_msg EXCEPT ![m] = ConfirmationReply(data[m])]
                    /\ pc' = [pc EXCEPT ![m] = "reply"]
               ELSE /\ pc' = [pc EXCEPT ![m] = "except"]
                    /\ UNCHANGED <<store, reply_msg>>
    /\ UNCHANGED <<clock, user, response, data, stamp, outbox, result,
                   received, scenario, fetched>>

(* Stream that also deletes from the collection the documents outside the  *)
(* window of the query.                                                    *)
StreamAndPrune(m) ==
    /\ pc[m] = "stream"
    /\ calls' = [calls EXCEPT ![m] = Append(@, Call("read", TRUE))]
    /\ \E order \in FetchOrders(store[user[m]]) :
         LET start == StartDate(data[m].period, stamp[m])
             agg == Aggregate(Where(order, start))
         IN  /\ fetched' = [fetched EXCEPT ![m] = Where(order, start)]
             /\ store' = [store EXCEPT ![user[m]] = Where(@, start)]
             /\ IF agg.ok
                THEN /\ reply_msg' = [reply_msg EXCEPT ![m] = ReportReply(start.label, agg)]
                     /\ pc' = [pc EXCEPT ![m] = "reply"]
                ELSE /\ pc' = [pc EXCEPT ![m] = "except"]
                     /\ UNCHANGED reply_msg
    /\ UNCHANGED <<clock, user, response, data, stamp, outbox,
                   result, received, scenario>>

(* Lines 105-126: the documents of the window are fetched into `docs`, in  *)
(* an order the store picks (fetched), and summed; the report is           *)
(* formatted.                                                              *)
Stream(m) ==
    /\ pc[m] = "stream"
    /\ calls' = [calls EXCEPT ![m] = Append(@, Call("read", TRUE))]
    /\ \E order \in FetchOrders(store[user[m]]) :
         LET start == StartDate(data[m].period, stamp[m])
             agg == Aggregate(Where(order, start))
         IN  /\ fetched' = [fetched EXCEPT ![m] = Where(order, start)]
             /\ IF agg.ok
                THEN /\ reply_msg' = [reply_msg EXCEPT ![m] = ReportReply(start.label, agg)]
                     /\ pc' = [pc EXCEPT ![m] = "reply"]
                ELSE /\ pc' = [pc EXCEPT ![m] = "except"]
                     /\ UNCHANGED reply_msg
    /\ UNCHANGED <<clock, store, user, response, data, stamp, outbox,
                   result, received, scenario>>

(* Line 108/113: the store read raises.                                    *)
StreamFails(m) ==
    /\ pc[m] = "stream"
    /\ calls' = [calls EXCEPT ![m] = Append(@, Call("read", FALSE))]
    /\ pc' = [pc EXCEPT ![m] = "except"]
    /\ UNCHANGED <<clock, store, user, response, data, stamp, reply_msg,
                   outbox, result, received, scenario, fetched>>

(* Lines 84-87, 128-131, 134-137: line_bot_api.reply_message(reply_msg).   *)
SendReply(m, delivered) ==
    /\ pc[m] = "reply"
    /\ calls' = [calls EXCEPT ![m] = Append(@, Call("reply", delivered))]
    /\ IF delivered
       THEN /\ outbox' = [outbox EXCEPT ![m] = Append(@, reply_msg[m])]
            /\ pc' = [pc EXCEPT ![m] = "done"]
            /\ result' = [result EXCEPT ![m] = "returned"]
       ELSE /\ pc' = [pc EXCEPT ![m] = "except"]
            /\ UNCHANGED <<outbox, result>>
    /\ UNCHANGED <<clock, store, user, response, data, stamp, reply_msg,
                   received, scenario, fetched>>

(* Except with the reply of line 141 left out: the exception is logged    *)
(* and raised again.                                                       *)
ExceptReraise(m, delivered) ==
    /\ pc[m] = "except"
    /\ delivered
    /\ pc' = [pc EXCEPT ![m] = "done"]
    /\ result' = [result EXCEPT ![m] = "raised"]
    /\ UNCHANGED <<clock, store, user, response, data, stamp, reply_msg,
                   calls, outbox, received, scenario, fetched>>

(* Lines 139-144: the handler of `except Exception` replies the error      *)
(* text; an exception of that reply call leaves process_text_input.        *)
Except(m, delivered) ==
    /\ pc[m] = "except"
    /\ calls' = [calls EXCEPT ![m] = Append(@, Call("reply", delivered))]
    /\ pc' = [pc EXCEPT ![m] = "done"]
    /\ IF delivered
       THEN /\ outbox' = [outbox EXCEPT ![m] = Append(@, ErrorReply)]
            /\ result' = [result EXCEPT ![m] = "returned"]
       ELSE /\ result' = [result EXCEPT ![m] = "raised"]
            /\ UNCHANGED outbox
    /\ UNCHANGED <<clock, store, user, response, data, stamp, reply_msg,
                   received, scenario, fetched>>

(* callback (lines 156-161): handler.handle is over, the request ends     *)
(* ('OK', or a server error when the exception left the run) and the       *)
(* locals of the run are gone.                                             *)
Return(m) ==
    /\ pc[m] = "done"
    /\ pc' = [pc EXCEPT ![m] = "idle"]
    /\ user' = [user EXCEPT ![m] = "U1"]
    /\ response' = [response EXCEPT ![m] = NoResponse]
    /\ data' = [data EXCEPT ![m] = NoData]
    /\ stamp' = [stamp EXCEPT ![m] = 0]
    /\ reply_msg' = [reply_msg EXCEPT ![m] = NoReply]
    /\ calls' = [calls EXCEPT ![m] = <<>>]
    /\ outbox' = [outbox EXCEPT ![m] = <<>>]
    /\ result' = [result EXCEPT ![m] = "none"]
    /\ fetched' = [fetched EXCEPT ![m] = <<>>]
    /\ UNCHANGED <<clock, store, received, scenario>>

Next ==
    \/ Tick
    \/ \E m \in Threads, u \in Users : HandleMessage(m, u)
    \/ \E m \in Threads, raw \in ModelTexts : Generate(m, raw)
    \/ \E m \in Threads : GenerateFails(m)
    \/ \E m \in Threads : Dispatch(m)
    \/ \E m \in Threads, acked \in BOOLEAN : Add(m, acked)
    \/ \E m \in Threads : Stream(m)
    \/ \E m \in Threads : StreamFails(m)
    \/ \E m \in Threads, delivered \in BOOLEAN : SendReply(m, delivered)
    \/ \E m \in Threads, delivered \in BOOLEAN : Except(m, delivered)
    \/ \E m \in Threads : Return(m)

Spec == Init /\ [][Next]_vars

(***************************************************************************)
(* Properties.                                                             *)
(***************************************************************************)
CallsOf(m, op) == {i \in 1..Len(calls[m]) : calls[m][i].op = op}

(* The transport accepted every reply call the run has made.               *)
ReplyCallsOk(m) == \A i \in CallsOf(m, "reply") : calls[m][i].ok

(* A call to the model or to the store has failed in the run.              *)
CoreCallFailed(m) ==
    \E i \in 1..Len(calls[m]) : calls[m][i].op # "reply" /\ ~calls[m][i].ok

(* A response text that is no JSON document, or JSON that is no object, or *)
(* an object with no intent field.                                         *)
Unusable(raw) ==
    \/ raw.body # "json"
    \/ raw.data.kind # "obj"
    \/ raw.data.intent = Missing

(* C1: every malformed, truncated or non-JSON output, every JSON value     *)
(* that is no object and every object without an intent is answered with  *)
(* the unknown-intent guidance, never with the generic error reply.        *)
C1_UnusableOutputIsUnknown ==
    \A m \in Threads :
        (pc[m] = "done" /\ response[m] # NoResponse /\ Unusable(response[m])
            /\ ReplyCallsOk(m))
        => (result[m] = "returned" /\ outbox[m] = <<UnknownReply>>)

(* C2: whatever fails among the model call, the decoding, the store write  *)
(* and the store read, the run returns normally and exactly one textual    *)
(* reply has been sent: a confirmation, a report, the guidance or the      *)
(* generic error text (the error text when a call has failed).             *)
C2_AlwaysRepliesAndReturns ==
    \A m \in Threads :
        (pc[m] = "done" /\ ReplyCallsOk(m))
        => /\ result[m] = "returned"
           /\ Len(outbox[m]) = 1
           /\ outbox[m][1].kind \in {"confirmation", "report", "unknown", "error"}
           /\ outbox[m][1].text # ""
           /\ CoreCallFailed(m) => outbox[m] = <<ErrorReply>>

C2_Witness ==
    \E m \in Threads :
        /\ pc[m] = "done"
        /\ result[m] = "returned"
        /\ calls[m] = <<Call("llm", TRUE), Call("read", FALSE), Call("reply", TRUE)>>
        /\ outbox[m] = <<ErrorReply>>

(* C3: every stored transaction has an integer price >= 0 and non-empty    *)
(* item and category strings.                                              *)
NonEmptyStr(v) == v.t = "str" /\ v.s # ""
NonNegativeInt(v) == v.t = "int" /\ v.n >= 0

C3_StoredTransactionsWellShaped ==
    \A u \in Users : \A i \in 1..Len(store[u]) :
        /\ NonNegativeInt(store[u][i].price)
        /\ NonEmptyStr(store[u][i].item)
        /\ NonEmptyStr(store[u][i].category)

(* The sum of the prices of a sequence of transactions.                    *)
RECURSIVE SumPrices(_)
SumPrices(docs) ==
    IF docs = <<>> THEN 0 ELSE Head(docs).price.n + SumPrices(Tail(docs))

InCategory(docs, c) == SelectSeq(docs, LAMBDA d : d.category = c)

(* by_category holds one entry per category of docs, matched by exact      *)
(* value, each with the sum of the prices of that category.                *)
GroupsExactly(cats, docs) ==
    /\ {cats[i].cat : i \in 1..Len(cats)} = {docs[i].category : i \in 1..Len(docs)}
    /\ \A i, j \in 1..Len(cats) : cats[i].cat = cats[j].cat => i = j
    /\ \A i \in 1..Len(cats) : cats[i].amount = SumPrices(InCategory(docs, cats[i].cat))

(* The read-and-scan step of run m that ends with a report.                *)
ReportStep(m) == pc[m] = "stream" /\ pc'[m] = "reply"

PeriodIsAll(d) == d.period \notin {Str("today"), Str("this_month")}

WriteFailed(m) == \E i \in CallsOf(m, "write") : ~calls[m][i].ok
WriteAcked(m) == \E i \in CallsOf(m, "write") : calls[m][i].ok
Confirms(m) ==
    \/ reply_msg[m].kind = "confirmation"
    \/ \E i \in 1..Len(outbox[m]) : outbox[m][i].kind = "confirmation"

C5_State ==
    \A m \in Threads :
        /\ WriteFailed(m) =>
              /\ ~Confirms(m)
              /\ \A i \in 1..Len(outbox[m]) : outbox[m][i] = ErrorReply
              /\ (pc[m] = "done" /\ ReplyCallsOk(m)) => outbox[m] = <<ErrorReply>>
        /\ Confirms(m) =>
              /\ WriteAcked(m)
              /\ \E j \in 1..Len(store[user[m]]) :
                    store[user[m]][j] = NewDoc(data[m], stamp[m])

C5_Step ==
    \A m \in Threads :
        LET failsNow == calls'[m] = Append(calls[m], Call("write", FALSE))
            failedBefore == WriteFailed(m) /\ calls'[m] # calls[m]
        IN  (failsNow \/ failedBefore) => store' = store

(* C5: when the store write of a record fails, the run never confirms, the *)
(* only reply it sends is the generic error text, and neither the failing  *)
(* step nor any later step of the run changes a collection; a confirmation *)
(* exists only when the store has acknowledged the write.                  *)
C5_FailedWriteIsNeverConfirmed == [][C5_State' /\ C5_Step]_vars

C5_Witness ==
    \E m \in Threads :
        /\ pc[m] = "done"
        /\ calls[m] = <<Call("llm", TRUE), Call("write", FALSE), Call("reply", TRUE)>>
        /\ outbox[m] = <<ErrorReply>>
        /\ store[user[m]] = <<>>

(* int(p) for a price that is a non-negative integer or its decimal text. *)
Prices == 0..100
CoercibleToNat(v) ==
    \/ v.t = "int" /\ v.n >= 0
    \/ v.t = "str" /\ \E n \in Prices : IntToStr(n) = v.s
CoerceInt(v) ==
    IF v.t = "int" THEN v.n ELSE CHOOSE n \in Prices : IntToStr(n) = v.s

WellFormedRecord(d) ==
    /\ d.kind = "obj"
    /\ d.intent = Str("record")
    /\ NonEmptyStr(d.item)
    /\ NonEmptyStr(d.category)
    /\ CoercibleToNat(d.price)

(* C6: a well-formed record output whose write is acknowledged leaves in   *)
(* the sender's collection a transaction with the given item and category  *)
(* and the price coerced to an integer, and the confirmation names the     *)
(* given item, price and category.                                         *)
C6_RecordStoresCoercedPrice ==
    \A m \in Threads :
        (WellFormedRecord(data[m]) /\ WriteAcked(m))
        => /\ \E j \in 1..Len(store[user[m]]) :
                 store[user[m]][j] =
                     [item |-> data[m].item,
                      price |-> Int_(CoerceInt(data[m].price)),
                      category |-> data[m].category,
                      date |-> stamp[m]]
           /\ reply_msg[m].text = ConfirmationText(data[m])

(* The transactions of docs that no midnight in `starts` separates from    *)
(* `now`: those recorded at or after the latest such midnight.             *)
SinceLatest(starts, docs, now) ==
    SelectSeq(docs, LAMBDA d : ~\E s \in starts : d.date < s /\ s <= now)

IsQuery(d) == d.kind = "obj" /\ d.intent = Str("query")

LabelOf(period) ==
    CASE period = Str("today") -> "Today"
      [] period = Str("this_month") -> "This Month"
      [] OTHER -> "Total"

(* C8: a query output is always answered with a report, labelled Today,    *)
(* This Month or (any other period) Total, never with the error reply.     *)
C8_QueryAlwaysReports ==
    \A m \in Threads :
        (pc[m] = "done" /\ IsQuery(data[m]) /\ ReplyCallsOk(m) /\ ~CoreCallFailed(m))
        => /\ Len(outbox[m]) = 1
           /\ outbox[m][1].kind = "report"
           /\ outbox[m][1].label = LabelOf(data[m].period)

CallOps(m) == [i \in 1..Len(calls[m]) |-> calls[m][i].op]

(* C9: a handled message has made one model call, then at most one store   *)
(* operation, then exactly one reply attempt.                              *)
C9_OneCallOfEachKindInOrder ==
    \A m \in Threads :
        pc[m] = "done"
        => CallOps(m) \in { <<"llm", "reply">>,
                            <<"llm", "write", "reply">>,
                            <<"llm", "read", "reply">> }

(* The step in which the store acknowledges the write of run m.            *)
AckStep(m) == calls'[m] = Append(calls[m], Call("write", TRUE))

(* C10: under any interleaving, every acknowledged record write adds one   *)
(* transaction of its own to the sender's collection, identical content    *)
(* included, and no step removes or merges a stored transaction.           *)
C10_EveryAckedRecordAddsOne ==
    [][/\ \A m \in Threads :
             AckStep(m)
             => /\ store'[user[m]] = Append(store[user[m]], NewDoc(data[m], stamp[m]))
                /\ \A u \in Users \ {user[m]} : store'[u] = store[u]
       /\ \A u \in Users :
             /\ Len(store'[u]) >= Len(store[u])
             /\ SubSeq(store'[u], 1, Len(store[u])) = store[u]]_vars

C10_Witness ==
    /\ pc[1] = "reply" /\ pc[2] = "reply"
    /\ user[1] = user[2]
    /\ data[1] = data[2]
    /\ stamp[1] = stamp[2]
    /\ reply_msg[1].kind = "confirmation" /\ reply_msg[2].kind = "confirmation"
    /\ Len(store[user[1]]) = 2
    /\ store[user[1]][1] = store[user[1]][2]

(* The decoded output of run m names neither a record nor a query.         *)
NoStoreIntent(d) == d.intent \notin {Str("record"), Str("query")}
Decoded(m) == response[m] # NoResponse /\ pc[m] \notin {"idle", "generate"}

C11_State ==
    \A m \in Threads :
        (Decoded(m) /\ NoStoreIntent(data[m]))
        => /\ CallsOf(m, "write") = {} /\ CallsOf(m, "read") = {}
           /\ (pc[m] = "done" /\ data[m].kind = "obj" /\ ReplyCallsOk(m))
              => /\ outbox[m] = <<UnknownReply>>
                 /\ outbox[m][1].text = UnknownText
                 /\ CallOps(m) = <<"llm", "reply">>

RECURSIVE SumNumericPrices(_)
SumNumericPrices(docs) ==
    IF docs = <<>> THEN 0
    ELSE (IF IsNumber(Head(docs).price) THEN Head(docs).price.n ELSE 0)
            + SumNumericPrices(Tail(docs))

(* The step in which the store answers the read of run m.                  *)
ReadStep(m) == calls'[m] = Append(calls[m], Call("read", TRUE))

(* C12: whatever prices the handled record messages have stored, a query   *)
(* whose read the store answers builds a report, and a transaction whose   *)
(* price is no number counts as 0 in the total and in its category.        *)
C12_MalformedPriceCountsAsZero ==
    [][\A m \in Threads :
          ReadStep(m)
          => LET start == StartDate(data[m].period, stamp[m])
                 counted == Where(store[user[m]], start)
                 r == reply_msg'[m]
             IN  /\ pc'[m] = "reply"
                 /\ r.kind = "report"
                 /\ r.total = SumNumericPrices(counted)
                 /\ \A i \in 1..Len(r.cats) :
                       r.cats[i].amount =
                          SumNumericPrices(InCategory(counted, r.cats[i].cat))]_vars

(* The category a transaction counts under.                                *)
CategoryOf(d) == IF d.category = Missing THEN Str("Uncategorized") ELSE d.category

(* The categories of docs, each once, in the order of first occurrence.    *)
RECURSIVE FirstSeen(_, _)
FirstSeen(docs, seen) ==
    IF docs = <<>> THEN <<>>
    ELSE LET c == CategoryOf(Head(docs))
         IN  IF c \in seen THEN FirstSeen(Tail(docs), seen)
             ELSE <<c>> \o FirstSeen(Tail(docs), seen \cup {c})

ExpectedByCategory(docs) ==
    LET keys == FirstSeen(docs, {})
    IN  [i \in 1..Len(keys) |->
            [cat |-> keys[i],
             amount |-> SumPrices(SelectSeq(docs, LAMBDA d : CategoryOf(d) = keys[i]))]]

(* C13: the by_category of every report is the list of the categories of   *)
(* the fetched transactions (the owner's transactions of the window, in    *)
(* the order the store returned them) in first-encounter order, each with  *)
(* the sum of the prices of the transactions of exactly that category, and *)
(* nothing else; the report text lists them in that order.                 *)
C13_ByCategoryInFirstEncounterOrder ==
    [][\A m \in Threads :
          ReportStep(m)
          => LET start == StartDate(data[m].period, stamp[m])
                 r == reply_msg'[m]
             IN  /\ fetched'[m] \in FetchOrders(Where(store[user[m]], start))
                 /\ r.cats = ExpectedByCategory(fetched'[m])
                 /\ r.text = ReportText(r.label, r.total, r.cats)]_vars

C13_Witness ==
    \E m \in Threads :
        /\ pc[m] = "reply"
        /\ reply_msg[m].kind = "report"
        /\ Len(store[user[m]]) = 2
        /\ Len(reply_msg[m].cats) = 2
        /\ fetched[m] = <<store[user[m]][2], store[user[m]][1]>>
        /\ reply_msg[m].cats[1].cat = store[user[m]][2].category
        /\ reply_msg[m].cats[1].cat # store[user[m]][1].category
        /\ reply_msg[m].cats[1].amount = store[user[m]][2].price.n

(* C14: every collection is append-only: a step keeps every stored         *)
(* transaction at its place with the same item, price, category and date,  *)
(* a collection changes only by the one document that the acknowledged     *)
(* write of a run handling a record intent appends to the sender's         *)
(* collection, and no other step of any run changes a collection.          *)
C14_CollectionsAreAppendOnly ==
    [][/\ \A u \in Users :
             /\ \A i \in 1..Len(store[u]) :
                   /\ i <= Len(store'[u])
                   /\ store'[u][i] = store[u][i]
             /\ store'[u] # store[u]
                => /\ Len(store'[u]) = Len(store[u]) + 1
                   /\ \E m \in Threads :
                         /\ pc[m] = "add"
                         /\ user[m] = u
                         /\ data[m].intent = Str("record")
                         /\ AckStep(m)
       /\ \A m \in Threads :
             (pc'[m] # pc[m] /\ pc[m] # "add") => store' = store]_vars

C14_Witness ==
    \E m \in Threads :
        /\ pc[m] = "done"
        /\ data[m].intent = Str("query")
        /\ Len(outbox[m]) = 1
        /\ outbox[m][1].kind = "report"
        /\ Len(outbox[m][1].cats) = 1
        /\ Len(store[user[m]]) = 2
        /\ store[user[m]][1].date < store[user[m]][2].date
        /\ outbox[m][1].total = store[user[m]][2].price.n

(* The report that a user's transactions of the window, fetched in the     *)
(* order `order`, give for a period.                                       *)
OwnReport(order, period) ==
    ReportReply(LabelOf(period),
                [ok |-> TRUE, total |-> SumPrices(order),
                 cats |-> ExpectedByCategory(order)])

(* C15: the acknowledged write of a record of user A changes the           *)
(* collection of A and of no other user, and what a query of user B        *)
(* fetches, and the report built from it, are determined by B's own        *)
(* collection, the period and the time of the query (and the order in     *)
(* which the store returns B's documents), whatever the collections of     *)
(* the other users hold.                                                   *)
C15_UsersAreIsolated ==
    [][\A m \in Threads :
          /\ AckStep(m)
             => /\ store'[user[m]] # store[user[m]]
                /\ \A u \in Users \ {user[m]} : store'[u] = store[u]
          /\ ReadStep(m)
             => LET start == StartDate(data[m].period, stamp[m])
                    own == Where(store[user[m]], start)
                IN  /\ fetched'[m] \in FetchOrders(own)
                    /\ pc'[m] = "reply"
                       => reply_msg'[m] =
                             OwnReport(fetched'[m], data[m].period)]_vars

C15_Witness ==
    \E m \in Threads :
        /\ pc[m] = "reply"
        /\ user[m] = "U2"
        /\ reply_msg[m].kind = "report"
        /\ Len(store["U1"]) = 1
        /\ Len(store["U2"]) = 1
        /\ store["U1"][1].price # store["U2"][1].price
        /\ reply_msg[m].total = store["U2"][1].price.n
        /\ fetched[m] = store["U2"]

(* The document the store holds last in the collection of u.               *)
Newest(u) == store[u][Len(store[u])]

(* C16: the date of a stored transaction is the clock value read when the  *)
(* record branch is entered, after the model call has returned: the clock  *)
(* never runs backwards, the run holds that value unchanged until its      *)
(* write, and the acknowledged write stores exactly that value, which is   *)
(* not later than the clock when the write returns and is not the "date"   *)
(* of the model output.                                                    *)
C16_DateIsTheClockOfTheRecordStep ==
    [][/\ clock' >= clock
       /\ \A m \in Threads :
             /\ (pc[m] = "dispatch" /\ pc'[m] = "add")
                => (CallsOf(m, "llm") # {} /\ stamp'[m] = clock)
             /\ (pc[m] = "add" /\ pc'[m] = "add") => stamp'[m] = stamp[m]
             /\ pc[m] = "add" => stamp[m] <= clock
             /\ AckStep(m)
                => /\ pc[m] = "add"
                   /\ Newest(user[m])'.date = stamp[m]
                   /\ Newest(user[m])'.date <= clock'
                   /\ data[m].date # Missing
                      => Newest(user[m])'.date # data[m].date.n]_vars

C16_Witness ==
    \E m \in Threads :
        /\ pc[m] = "reply"
        /\ reply_msg[m].kind = "confirmation"
        /\ data[m].date = Int_(9)
        /\ Len(store[user[m]]) = 1
        /\ store[user[m]][1].date = 1
        /\ stamp[m] = 1
        /\ clock = 2

====
